---- MODULE Spec2Model ----
(***************************************************************************)
(* Model of iftar-slot.py: the poll loop main(), one cycle of              *)
(* check_today_slots() and send_telegram_message().                        *)
(*                                                                         *)
(* Time is the wall clock in seconds since 00:00 of day 0 of the model.    *)
(* Texts (titles, availability boxes, status labels, hrefs) are sequences  *)
(* of words; str.lower() maps each word, "x in text" is word membership.   *)
(***************************************************************************)
EXTENDS Integers, Sequences, FiniteSets, TLC

VARIABLES
    now,                 \* the wall clock, datetime.now()
    pc,                  \* position of the process in main()/check_today_slots()
    last_states,         \* global dict: key -> bool
    last_notifications,  \* global dict: key -> timestamp
    target_str,          \* local: the resolved date label
    day_cell,            \* local: the calendar cell selected for target_str
    detail_url,          \* local: the detail URL
    articles,            \* local: number of product rows not yet visited
    article,             \* local: the product row of the current iteration
    messages,            \* local: list of (key, text) appended this cycle
    sent,                \* outcome of each send_telegram_message call of this cycle
    outcome,             \* how the last run of check_today_slots ended
    before               \* the two global dicts as the current cycle found them

vars == <<now, pc, last_states, last_notifications, target_str, day_cell,
          detail_url, articles, article, messages, sent, outcome, before>>

----------------------------------------------------------------------------
\* Program constants

COOLDOWN_SECONDS == 600

SleepSeconds == 30

cutoff_time == 19 * 3600 + 45 * 60

base_url == <<"https://dailyiftar.imsuaachen.de">>

----------------------------------------------------------------------------
\* Bounds of the model

\* the clock runs from StartTime to StartTime + MaxElapsed
MaxElapsed == 1200

\* product rows on one detail page
MaxRows == 3

\* the process starts 15 minutes before the cutoff
StartTime == cutoff_time - 900

\* seconds the calendar-page request may block (requests.get has no timeout)
FetchDelays == {270, 570}

----------------------------------------------------------------------------
\* Values

None == "None"

EmptyDict == [k \in {} |-> FALSE]

\* dict.get(key, default)
Get(d, key, default) == IF key \in DOMAIN d THEN d[key] ELSE default

\* d[key] = value
Put(d, key, value) == [k \in DOMAIN d \cup {key} |-> IF k = key THEN value ELSE d[k]]

\* str.lower(), word by word
LowerWord(w) ==
    CASE w = "Bruederticket" -> "bruederticket"
      [] w = "SCHWESTERNTICKET" -> "schwesternticket"
      [] w = "Schwesternticket" -> "schwesternticket"
      [] w = "Kinderticket" -> "kinderticket"
      [] w = "AUSGEBUCHT" -> "ausgebucht"
      [] w = "Ausgebucht" -> "ausgebucht"
      [] w = "Verfuegbar" -> "verfuegbar"
      [] w = "Verkauf" -> "verkauf"
      [] OTHER -> w

Lower(text) == [i \in DOMAIN text |-> LowerWord(text[i])]

\* keyword in text
Contains(text, word) == \E i \in DOMAIN text : text[i] = word

\* str.capitalize() of a key's ticket type
Capitalize(w) ==
    CASE w = "bruder" -> "Bruder"
      [] w = "schwester" -> "Schwester"
      [] OTHER -> w

----------------------------------------------------------------------------
\* Target date (lines 52-63)

SecondsPerDay == 24 * 3600

TimeOfDay(t) == t % SecondsPerDay

\* day 0 of the model is 31.03.2025
EpochDate == <<31, 3, 2025>>

IsLeap(y) == (y % 4 = 0 /\ y % 100 # 0) \/ y % 400 = 0

DaysInMonth(m, y) ==
    IF m = 2 THEN (IF IsLeap(y) THEN 29 ELSE 28)
    ELSE IF m \in {4, 6, 9, 11} THEN 30 ELSE 31

\* date + timedelta(days=1)
NextDate(d) ==
    IF d[1] < DaysInMonth(d[2], d[3]) THEN <<d[1] + 1, d[2], d[3]>>
    ELSE IF d[2] < 12 THEN <<1, d[2] + 1, d[3]>>
    ELSE <<1, 1, d[3] + 1>>

\* the date n days after d, a month at a time
RECURSIVE AddDays(_, _)
AddDays(d, n) ==
    IF d[1] + n <= DaysInMonth(d[2], d[3]) THEN <<d[1] + n, d[2], d[3]>>
    ELSE AddDays(NextDate(<<DaysInMonth(d[2], d[3]), d[2], d[3]>>),
                 n - (DaysInMonth(d[2], d[3]) - d[1]) - 1)

DateOfDay(n) == AddDays(EpochDate, n)

\* the calendar date of a clock value
DateOf(t) == DateOfDay(t \div SecondsPerDay)

\* two decimal digits, zero padded
TwoDigits(n) == <<n \div 10, n % 10>>

\* strftime("%d.%m.%Y")
Strftime(d) == <<TwoDigits(d[1]), TwoDigits(d[2]), d[3]>>

\* variant: the comparison at line 56 written as ">"
TargetDate_Strict(t) == IF TimeOfDay(t) > cutoff_time THEN NextDate(DateOf(t)) ELSE DateOf(t)

\* lines 55-61
TargetDate(t) == IF TimeOfDay(t) >= cutoff_time THEN NextDate(DateOf(t)) ELSE DateOf(t)

TargetStr(t) == Strftime(TargetDate(t))

----------------------------------------------------------------------------
\* Pages the site may serve

NoLink == [tag |-> FALSE, href |-> <<>>]

Link(href) == [tag |-> TRUE, href |-> href]

DetailPath == <<"/", "event", "iftar">>

Cell(status, event, label) == [found |-> TRUE, status |-> status, event |-> event, label |-> label]

\* select_one found no td.day cell
NoDayCell == [found |-> FALSE, status |-> <<>>, event |-> NoLink, label |-> NoLink]

\* td.day cells: .event-status text, ul.events a.event, a.day-label.event
Cells ==
    { Cell(<<>>, Link(DetailPath), NoLink),
      Cell(<<"AUSGEBUCHT">>, Link(DetailPath), NoLink),
      Cell(<<>>, NoLink, Link(DetailPath)),
      Cell(<<>>, Link(<<>>), Link(DetailPath)),
      Cell(<<>>, NoLink, NoLink) }

\* the dates a calendar page may carry a cell for
PageDates == {TargetStr(StartTime), TargetStr(StartTime + SecondsPerDay)}

\* a calendar page: one td.day cell with its data-date (<<>>: a date never asked for)
Pages == [date : PageDates \cup {<<>>}, cell : Cells]

\* article.product-row: h4 text (or no h4), div.availability-box text (or no div)
Article(h4, title, box, text) == [h4 |-> h4, title |-> title, box |-> box, availability |-> text]

NoArticle == Article(FALSE, <<>>, FALSE, <<>>)

Rows ==
    { Article(TRUE, <<"Bruederticket">>, TRUE, <<"Verfuegbar">>),
      Article(TRUE, <<"Bruederticket">>, TRUE, <<"AUSGEBUCHT">>),
      Article(TRUE, <<"SCHWESTERNTICKET">>, FALSE, <<>>),
      Article(TRUE, <<"Schwesternticket">>, TRUE, <<"Ausgebucht">>),
      Article(TRUE, <<"Kinderticket">>, TRUE, <<"Verfuegbar">>),
      Article(FALSE, <<>>, TRUE, <<"Verfuegbar">>) }

----------------------------------------------------------------------------
\* Parsing (lines 73-104, 121-145)

\* line 74: soup.select_one('td.day[data-date="..."]')
SelectDayCell(page, date) == IF page.date = date THEN page.cell ELSE NoDayCell

\* lines 79-80: the cell-level status marker
StatusText(cell) == Lower(cell.status)

\* line 84
FullyBooked(cell) ==
    \E kw \in {"ausgebucht", "verkauf beendet", "fully booked"} : Contains(StatusText(cell), kw)

\* lines 91-94: ul.events a.event, else a.day-label.event
LinkTag(cell) == IF cell.event.tag THEN cell.event ELSE cell.label

\* variant: a "return" after line 86, for a cell marked fully booked
NoValidLink_OrBooked(cell) ==
    ~LinkTag(cell).tag \/ LinkTag(cell).href = <<>> \/ FullyBooked(cell)

\* variant: line 96 without the href test
NoValidLink_TagOnly(cell) == ~LinkTag(cell).tag

\* line 96: not link_tag or not link_tag.get("href")
NoValidLink(cell) == ~LinkTag(cell).tag \/ LinkTag(cell).href = <<>>

\* lines 100-103: urljoin for a path starting with "/"
DetailUrl(href) == IF href # <<>> /\ Head(href) = "/" THEN base_url \o Tail(href) ELSE href

\* lines 127-133
IsSoldOut(a) == a.box /\ Contains(Lower(a.availability), "ausgebucht")

\* variant: the final "else" of line 144 taken for a sister ticket
TicketType_ElseSister(title) ==
    IF Contains(title, "bruederticket") THEN "bruder" ELSE "schwester"

\* lines 136-145: the ticket type of a lower-cased title, None for an unrecognized one
TicketType(title) ==
    IF Contains(title, "bruederticket") THEN "bruder"
    ELSE IF Contains(title, "schwesternticket") THEN "schwester"
    ELSE None

\* lines 122-125, 136-145: whether the row gets past both "continue"s
Recognized(a) == a.h4 /\ TicketType(Lower(a.title)) # None

\* variant: lines 139 and 142 with the ticket type alone as key
KeyOf_TypeOnly(a, date) == <<TicketType(Lower(a.title)), <<>>>>

\* lines 139, 142
KeyOf(a, date) == <<TicketType(Lower(a.title)), date>>

TicketEmoji(type) == IF type = "bruder" THEN "man" ELSE "woman"

\* lines 153 and 160: the (key, text) pair appended to messages
Message(key, kind, url) ==
    [key |-> key,
     text |-> <<TicketEmoji(key[1]), Capitalize(key[1]), kind, key[2], url>>]

----------------------------------------------------------------------------
\* The tracker, one row (lines 121-166)

Tracked(st, nt, msgs, raised) ==
    [states |-> st, notifications |-> nt, messages |-> msgs, raised |-> raised]

\* variant: the comparison at line 159 written as ">"
CooldownOver_Strict(elapsed) == elapsed > COOLDOWN_SECONDS

\* line 159
CooldownOver(elapsed) == elapsed >= COOLDOWN_SECONDS

\* variant: line 155 left out
RisingEdge_StateNotSet(st, nt, msgs, key, url, t) ==
    Tracked(st, Put(nt, key, t), Append(msgs, Message(key, "available", url)), FALSE)

\* variant: line 154 left out
RisingEdge_NoStamp(st, nt, msgs, key, url, t) ==
    Tracked(Put(st, key, TRUE), nt,
            Append(msgs, Message(key, "available", url)), FALSE)

\* lines 152-155: state change detected
RisingEdge(st, nt, msgs, key, url, t) ==
    Tracked(Put(st, key, TRUE), Put(nt, key, t),
            Append(msgs, Message(key, "available", url)), FALSE)

\* variant: line 162 run inside the cooldown as well
StillAvailable_Restamps(st, nt, msgs, key, url, t) ==
    IF key \notin DOMAIN nt
    THEN Tracked(st, nt, msgs, TRUE)
    ELSE IF CooldownOver(t - nt[key])
         THEN Tracked(st, Put(nt, key, t),
                      Append(msgs, Message(key, "still available", url)), FALSE)
         ELSE Tracked(st, Put(nt, key, t), msgs, FALSE)

\* lines 156-163: the ticket was already available
StillAvailable(st, nt, msgs, key, url, t) ==
    IF key \notin DOMAIN nt
    THEN Tracked(st, nt, msgs, TRUE)   \* KeyError at line 158
    ELSE IF CooldownOver(t - nt[key])
         THEN Tracked(st, Put(nt, key, t),
                      Append(msgs, Message(key, "still available", url)), FALSE)
         ELSE Tracked(st, nt, msgs, FALSE)

\* variant: line 166 as "del last_states[key]"
SoldOut_Deletes(st, nt, msgs, key) ==
    Tracked([k \in DOMAIN st \ {key} |-> st[k]], nt, msgs, FALSE)

\* variant: line 166 left out
SoldOut_StateKept(st, nt, msgs, key) == Tracked(st, nt, msgs, FALSE)

\* lines 164-166
SoldOut(st, nt, msgs, key) == Tracked(Put(st, key, FALSE), nt, msgs, FALSE)

\* variant: the cooldown test of line 159 applied to the rising edge as well
TrackKey_CooldownFirst(st, nt, msgs, key, is_sold_out, url, t) ==
    IF ~is_sold_out
    THEN IF key \in DOMAIN nt /\ ~CooldownOver(t - nt[key])
         THEN Tracked(Put(st, key, TRUE), nt, msgs, FALSE)
         ELSE IF ~Get(st, key, FALSE)
              THEN RisingEdge(st, nt, msgs, key, url, t)
              ELSE StillAvailable(st, nt, msgs, key, url, t)
    ELSE SoldOut(st, nt, msgs, key)

\* lines 148-166, for a recognized key
TrackKey(st, nt, msgs, key, is_sold_out, url, t) ==
    IF ~is_sold_out
    THEN IF ~Get(st, key, FALSE)
         THEN RisingEdge(st, nt, msgs, key, url, t)
         ELSE StillAvailable(st, nt, msgs, key, url, t)
    ELSE SoldOut(st, nt, msgs, key)

\* lines 122-166: one iteration of the loop
TrackArticle(st, nt, msgs, a, date, url, t) ==
    IF ~Recognized(a)
    THEN Tracked(st, nt, msgs, FALSE)
    ELSE TrackKey(st, nt, msgs, KeyOf(a, date), IsSoldOut(a), url, t)

\* lines 121-166 over a whole list of rows, at one clock value
RECURSIVE TrackAll(_, _, _, _, _, _, _)
TrackAll(st, nt, msgs, rows, date, url, t) ==
    IF rows = <<>>
    THEN Tracked(st, nt, msgs, FALSE)
    ELSE LET r == TrackArticle(st, nt, msgs, Head(rows), date, url, t)
         IN  IF r.raised THEN r
             ELSE TrackAll(r.states, r.notifications, r.messages, Tail(rows), date, url, t)

----------------------------------------------------------------------------
\* The process

Globals == <<last_states, last_notifications>>

Locals == <<target_str, day_cell, detail_url, articles, article>>

Record == <<messages, sent, outcome, before>>

Snapshot == [states |-> last_states, notifications |-> last_notifications]

Init ==
    /\ now = StartTime
    /\ pc = "check"
    /\ last_states = EmptyDict
    /\ last_notifications = EmptyDict
    /\ target_str = <<>>
    /\ day_cell = NoDayCell
    /\ detail_url = <<>>
    /\ articles = 0
    /\ article = NoArticle
    /\ messages = <<>>
    /\ sent = <<>>
    /\ outcome = None
    /\ before = Snapshot

\* check_today_slots returns to main(): its locals are gone
Return(how) ==
    /\ pc' = "sleep"
    /\ outcome' = how
    /\ target_str' = <<>>
    /\ day_cell' = NoDayCell
    /\ detail_url' = <<>>
    /\ articles' = 0
    /\ article' = NoArticle
    /\ messages' = <<>>
    /\ sent' = <<>>
    /\ before' = Snapshot

\* the request returns after d seconds
Blocks(d) ==
    /\ now + d <= StartTime + MaxElapsed
    /\ now' = now + d

\* lines 50-64
Begin ==
    /\ pc = "check"
    /\ pc' = "fetch_main"
    /\ target_str' = TargetStr(now)
    /\ messages' = <<>>
    /\ sent' = <<>>
    /\ outcome' = None
    /\ before' = Snapshot
    /\ UNCHANGED <<now, Globals, day_cell, detail_url, articles, article>>

\* lines 66-71: the request raises
FetchMainFail ==
    /\ pc = "fetch_main"
    /\ \E d \in FetchDelays : Blocks(d)
    /\ Return("main_fetch_error")
    /\ UNCHANGED Globals

\* lines 66-74: the request succeeds
FetchMainOk ==
    /\ pc = "fetch_main"
    /\ \E d \in FetchDelays : Blocks(d)
    /\ \E page \in Pages : day_cell' = SelectDayCell(page, target_str)
    /\ pc' = "day_cell"
    /\ UNCHANGED <<Globals, target_str, detail_url, articles, article, Record>>

\* lines 75-77
NoCell ==
    /\ pc = "day_cell"
    /\ ~day_cell.found
    /\ Return("no_cell")
    /\ UNCHANGED <<now, Globals>>

\* lines 79-98
NoDetailLink ==
    /\ pc = "day_cell"
    /\ day_cell.found
    /\ NoValidLink(day_cell)
    /\ Return("no_link")
    /\ UNCHANGED <<now, Globals>>

\* lines 79-104
ResolveDetailUrl ==
    /\ pc = "day_cell"
    /\ day_cell.found
    /\ ~NoValidLink(day_cell)
    /\ detail_url' = DetailUrl(LinkTag(day_cell).href)
    /\ pc' = "fetch_detail"
    /\ UNCHANGED <<now, Globals, target_str, day_cell, articles, article, Record>>

\* variant: a failed detail request treated as "nothing on sale"
FetchDetailFail_ForgetsStates ==
    /\ pc = "fetch_detail"
    /\ Return("detail_fetch_error")
    /\ last_states' = [k \in DOMAIN last_states |-> FALSE]
    /\ UNCHANGED <<now, last_notifications>>

\* lines 106-111: the request raises
FetchDetailFail ==
    /\ pc = "fetch_detail"
    /\ Return("detail_fetch_error")
    /\ UNCHANGED <<now, Globals>>

\* lines 106-119: the request succeeds, the page holds n product rows
FetchDetailOk ==
    /\ pc = "fetch_detail"
    /\ \E n \in 0..MaxRows : articles' = n
    /\ pc' = "articles"
    /\ UNCHANGED <<now, Globals, target_str, day_cell, detail_url, article, Record>>

\* lines 121-166: one iteration of the loop, over the next row of the page
ProcessArticle ==
    /\ pc = "articles"
    /\ articles > 0
    /\ \E a \in Rows :
        LET r == TrackArticle(last_states, last_notifications, messages,
                              a, target_str, detail_url, now)
        IN  /\ article' = a
            /\ last_states' = r.states
            /\ last_notifications' = r.notifications
            /\ messages' = r.messages
            /\ pc' = IF r.raised THEN "crashed" ELSE "articles"
    /\ articles' = articles - 1
    /\ UNCHANGED <<now, target_str, day_cell, detail_url, sent, outcome, before>>

\* line 168: the loop is over
EndArticles ==
    /\ pc = "articles"
    /\ articles = 0
    /\ pc' = "send"
    /\ article' = NoArticle
    /\ UNCHANGED <<now, Globals, target_str, day_cell, detail_url, articles, Record>>

\* variant: send_telegram_message without its try/except
SendMessage_Raises ==
    /\ pc = "send"
    /\ Len(sent) < Len(messages)
    /\ \E ok \in BOOLEAN :
        /\ sent' = Append(sent, ok)
        /\ pc' = IF ok THEN "send" ELSE "crashed"
    /\ UNCHANGED <<now, Globals, Locals, messages, outcome, before>>

\* variant: a failed send marks the key Unavailable, to announce it again
SendMessage_RollsBack ==
    /\ pc = "send"
    /\ Len(sent) < Len(messages)
    /\ \E ok \in BOOLEAN :
        /\ sent' = Append(sent, ok)
        /\ last_states' = IF ok THEN last_states
                          ELSE Put(last_states, messages[Len(sent) + 1].key, FALSE)
    /\ UNCHANGED <<now, pc, last_notifications, Locals, messages, outcome, before>>

\* lines 169-171 and 34-47: one send_telegram_message call; a failure is caught and logged
SendMessage ==
    /\ pc = "send"
    /\ Len(sent) < Len(messages)
    /\ \E ok \in BOOLEAN : sent' = Append(sent, ok)
    /\ UNCHANGED <<now, pc, Globals, Locals, messages, outcome, before>>

\* lines 172-176
Done ==
    /\ pc = "send"
    /\ Len(sent) = Len(messages)
    /\ Return(IF \E i \in DOMAIN sent : ~sent[i] THEN "notify_error" ELSE "done")
    /\ UNCHANGED <<now, Globals>>

\* line 181
Sleep ==
    /\ pc = "sleep"
    /\ now + SleepSeconds <= StartTime + MaxElapsed
    /\ now' = now + SleepSeconds
    /\ pc' = "check"
    /\ UNCHANGED <<Globals, Locals, Record>>

Next ==
    \/ Begin
    \/ FetchMainFail
    \/ FetchMainOk
    \/ NoCell
    \/ NoDetailLink
    \/ ResolveDetailUrl
    \/ FetchDetailFail
    \/ FetchDetailOk
    \/ ProcessArticle
    \/ EndArticles
    \/ SendMessage
    \/ Done
    \/ Sleep

Spec == Init /\ [][Next]_vars

\* other moments the process may be started at: days of the model around the
\* ends of months and years, times of day around midnight and the cutoff
SampleDays == {1, 30, 275, 334, 1064, 1065}

SampleTimes == {0, cutoff_time - 1, cutoff_time, cutoff_time + 1, SecondsPerDay - 1}

StartTimes == {StartTime} \cup {d * SecondsPerDay + t : d \in SampleDays, t \in SampleTimes}

\* the process started at any of these moments; a run started after the
\* model's clock bound is followed up to the resolution of its target date
DateInit ==
    /\ now \in StartTimes
    /\ pc = "check"
    /\ last_states = EmptyDict
    /\ last_notifications = EmptyDict
    /\ target_str = <<>>
    /\ day_cell = NoDayCell
    /\ detail_url = <<>>
    /\ articles = 0
    /\ article = NoArticle
    /\ messages = <<>>
    /\ sent = <<>>
    /\ outcome = None
    /\ before = Snapshot

DateSpec == DateInit /\ [][Next]_vars

\* the process is never suspended for good: whatever step is possible is taken
LiveSpec == Spec /\ WF_vars(Next)

----------------------------------------------------------------------------
\* Vocabulary of the properties

EndTime == StartTime + MaxElapsed

\* a step taken from here is one iteration of the loop at line 121, over article'
AtArticle == pc = "articles" /\ articles > 0

Unchanged(d) == d' = d

IsAvailable(st, key) == key \in DOMAIN st /\ st[key]

Available(key) == Message(key, "available", detail_url)

StillAvailable_(key) == Message(key, "still available", detail_url)

Keys == {<<type, date>> : type \in {"bruder", "schwester"}, date \in PageDates}

BruderOpen == Article(TRUE, <<"Bruederticket">>, TRUE, <<"Verfuegbar">>)

BruderSoldOut == Article(TRUE, <<"Bruederticket">>, TRUE, <<"AUSGEBUCHT">>)

\* every detail page of at most MaxRows product rows
RowSeqs == UNION {[1..n -> Rows] : n \in 0..MaxRows}

\* the tracker run over a whole page from the current state, at the current time
Run(st, nt, rows) == TrackAll(st, nt, <<>>, rows, target_str, detail_url, now)

\* the row's label names no ticket type, or the row has no header
Unrecognized(a) ==
    \/ ~a.h4
    \/ \A i \in DOMAIN a.title :
          LowerWord(a.title[i]) \notin {"bruederticket", "schwesternticket"}

\* the cell gives no detail URL: no link in it, or a link with an empty href
NoUrl(cell) ==
    \/ ~cell.found
    \/ ~cell.event.tag /\ ~cell.label.tag
    \/ cell.event.tag /\ cell.event.href = <<>>
    \/ ~cell.event.tag /\ cell.label.tag /\ cell.label.href = <<>>

\* nothing was appended or sent in this cycle, and the dicts are as the cycle found them
CycleLeftNoTrace ==
    /\ messages = <<>>
    /\ sent = <<>>
    /\ before = Snapshot
    /\ Unchanged(last_states)
    /\ Unchanged(last_notifications)

Outcomes == {"main_fetch_error", "no_cell", "no_link", "detail_fetch_error", "notify_error", "done"}

\* the key of the row the step visits
K == KeyOf(article', target_str)

\* the step visits a recognized row read as not sold out
ReadsOpen == AtArticle /\ Recognized(article') /\ ~IsSoldOut(article')

\* the step visits a recognized row read as sold out
ReadsSoldOut == AtArticle /\ Recognized(article') /\ IsSoldOut(article')

----------------------------------------------------------------------------
\* C1: rising edge. A recognized row read as not sold out while its key is
\* Unavailable or was never seen appends exactly one "available" message for
\* that key, and the key becomes Available with last notification = now.
C1_RisingEdge ==
    [][(ReadsOpen /\ ~IsAvailable(last_states, K))
        => /\ messages' = Append(messages, Available(K))
           /\ IsAvailable(last_states', K)
           /\ K \in DOMAIN last_notifications'
           /\ last_notifications'[K] = now
           /\ \A k \in DOMAIN last_states \ {K} :
                 /\ last_states'[k] = last_states[k]
                 /\ Get(last_notifications', k, 0) = Get(last_notifications, k, 0)
           /\ pc' = "articles"]_vars

\* a never-seen key has just produced its one "available" message
C1_Witness ==
    /\ pc = "articles"
    /\ article = BruderOpen
    /\ <<"bruder", target_str>> \notin DOMAIN before.states
    /\ messages = <<Available(<<"bruder", target_str>>)>>
    /\ IsAvailable(last_states, <<"bruder", target_str>>)
    /\ last_notifications[<<"bruder", target_str>>] = now

\* C2: cooldown. For a key that is Available, a not-sold-out reading appends
\* one "still available" message and restamps the key iff the time since the
\* key's last notification is >= COOLDOWN_SECONDS; otherwise it appends
\* nothing and changes nothing. No other reading appends "still available".
C2_Cooldown ==
    [][/\ (ReadsOpen /\ IsAvailable(last_states, K))
          => IF now - last_notifications[K] >= COOLDOWN_SECONDS
             THEN /\ messages' = Append(messages, StillAvailable_(K))
                  /\ last_notifications' = Put(last_notifications, K, now)
                  /\ Unchanged(last_states)
             ELSE /\ Unchanged(messages)
                  /\ Unchanged(last_notifications)
                  /\ Unchanged(last_states)
       /\ (AtArticle /\ messages' # messages
             /\ messages'[Len(messages')].text[3] = "still available")
          => /\ ReadsOpen
             /\ IsAvailable(last_states, K)
             /\ now - last_notifications[K] >= COOLDOWN_SECONDS]_vars

\* a key Available since an earlier cycle is re-announced exactly at the cooldown
C2_Witness ==
    /\ pc = "articles"
    /\ article = BruderOpen
    /\ IsAvailable(before.states, <<"bruder", target_str>>)
    /\ now - before.notifications[<<"bruder", target_str>>] = COOLDOWN_SECONDS
    /\ messages = <<StillAvailable_(<<"bruder", target_str>>)>>
    /\ last_notifications[<<"bruder", target_str>>] = now

\* C3: a sold-out reading of a recognized key sets the key Unavailable and
\* appends no message, whatever the key's state was.
C3_SoldOutResets ==
    [][ReadsSoldOut
        => /\ K \in DOMAIN last_states'
           /\ last_states'[K] = FALSE
           /\ Unchanged(messages)
           /\ Unchanged(last_notifications)
           /\ pc' = "articles"]_vars

\* a key Available with its cooldown running has just been read as sold out
C3_Witness ==
    /\ pc = "articles"
    /\ article = BruderSoldOut
    /\ IsAvailable(before.states, <<"bruder", target_str>>)
    /\ now - before.notifications[<<"bruder", target_str>>] < COOLDOWN_SECONDS
    /\ last_states[<<"bruder", target_str>>] = FALSE
    /\ messages = <<>>

\* C4: a key left Unavailable by a sold-out reading, whose old notification
\* timestamp is still in last_notifications, gets an "available" message at
\* its next not-sold-out reading, however recent that timestamp is.
C4_FreshRisingEdge ==
    [][(/\ ReadsOpen
        /\ K \in DOMAIN last_states
        /\ ~last_states[K]
        /\ K \in DOMAIN last_notifications)
        => /\ messages' = Append(messages, Available(K))
           /\ IsAvailable(last_states', K)
           /\ last_notifications'[K] = now]_vars

\* Available at the start of the cycle and notified less than a cooldown ago,
\* read as sold out, then read as not sold out: an "available" message
C4_Witness ==
    /\ pc = "articles"
    /\ article = BruderOpen
    /\ IsAvailable(before.states, <<"bruder", target_str>>)
    /\ now - before.notifications[<<"bruder", target_str>>] < COOLDOWN_SECONDS
    /\ messages = <<Available(<<"bruder", target_str>>)>>
    /\ IsAvailable(last_states, <<"bruder", target_str>>)

\* C5: idempotence. Running the tracker a second time over the same page at
\* the same clock value appends no message, for every page and every state.
C5_Idempotent ==
    pc = "fetch_detail" =>
        \A rows \in RowSeqs :
            LET first == Run(last_states, last_notifications, rows)
            IN  Run(first.states, first.notifications, rows).messages = <<>>

\* C6: a row with an unrecognized label or without a header appends no
\* message and changes neither dict; a page of such rows only (or of no row)
\* leaves no message and both dicts as they were.
C6_UnrecognizedIgnored ==
    [][/\ (AtArticle /\ Unrecognized(article'))
          => /\ Unchanged(messages)
             /\ Unchanged(last_states)
             /\ Unchanged(last_notifications)
             /\ pc' = "articles"
       /\ pc = "fetch_detail"
          => \A rows \in RowSeqs :
               (\A i \in DOMAIN rows : Unrecognized(rows[i]))
               => Run(last_states, last_notifications, rows)
                  = Tracked(last_states, last_notifications, <<>>, FALSE)]_vars

\* an unrecognized row has been visited while a key is Available: nothing changed
C6_Witness ==
    /\ pc = "articles"
    /\ article = Article(TRUE, <<"Kinderticket">>, TRUE, <<"Verfuegbar">>)
    /\ messages = <<>>
    /\ before = Snapshot
    /\ \E k \in DOMAIN last_states : last_states[k]

\* C7: with no cell for the target date, or no link or an empty href in the
\* cell, the cycle returns at once: nothing appended, nothing sent, both
\* dicts exactly as the cycle found them.
C7_NoDetailUrl ==
    [][(pc = "day_cell" /\ NoUrl(day_cell))
        => /\ pc' = "sleep"
           /\ outcome' \in {"no_cell", "no_link"}
           /\ CycleLeftNoTrace]_vars

\* a cycle ended for want of a link while a key was Available
C7_Witness ==
    /\ pc = "sleep"
    /\ outcome = "no_link"
    /\ \E k \in DOMAIN last_states : last_states[k] /\ last_notifications[k] < now

\* C8: a failed request for the calendar page or the detail page ends the
\* cycle only: the process is back in main() at the sleep, nothing was
\* appended or sent, and both dicts are exactly as the cycle found them.
C8_FetchFailure ==
    [][(/\ pc \in {"fetch_main", "fetch_detail"}
        /\ outcome' \in {"main_fetch_error", "detail_fetch_error"})
        => /\ pc' = "sleep"
           /\ CycleLeftNoTrace]_vars

\* the detail request failed while a cooldown was running: the key is still
\* Available with its old timestamp
C8_Witness ==
    /\ pc = "sleep"
    /\ outcome = "detail_fetch_error"
    /\ \E k \in DOMAIN last_states :
          /\ last_states[k]
          /\ now - last_notifications[k] > 0
          /\ now - last_notifications[k] < COOLDOWN_SECONDS

\* C9: the process never ends in an error, every cycle that has the time to
\* run returns to the sleep of main(), and after a cycle of any outcome the
\* next cycle begins (as long as the clock of the model has room for it).
C9_LoopNeverStops ==
    /\ [](pc # "crashed")
    /\ (pc = "check" /\ \E d \in FetchDelays : now + d <= EndTime) ~> (pc = "sleep")
    /\ \A o \in Outcomes :
          (pc = "sleep" /\ outcome = o /\ now + SleepSeconds <= EndTime)
              ~> (pc = "check" /\ outcome = o)

\* a next cycle is about to begin after a cycle in which a delivery failed
C9_Witness ==
    /\ pc = "check"
    /\ outcome = "notify_error"

\* C10: a send, failed or not, changes neither dict nor the list of messages
\* and the loop goes on to the next message, so that every message gets one
\* attempt and none is carried into a later cycle; a message is appended only
\* on a rising edge or on an expired cooldown, with the key set Available and
\* stamped with the time of the append, before any send.
C10_SendFailure ==
    [][/\ (pc = "send" /\ Len(sent) < Len(messages))
          => /\ sent' \in {Append(sent, TRUE), Append(sent, FALSE)}
             /\ Unchanged(messages)
             /\ Unchanged(last_states)
             /\ Unchanged(last_notifications)
             /\ pc' = "send"
       /\ (pc = "send" /\ Len(sent) >= Len(messages))
          => /\ Len(sent) = Len(messages)
             /\ pc' = "sleep"
             /\ Unchanged(last_states)
             /\ Unchanged(last_notifications)
       /\ (pc = "check") => (messages' = <<>> /\ sent' = <<>>)
       /\ (pc # "send") => sent = <<>> /\ sent' = <<>>
       /\ (messages' # messages /\ messages' # <<>>)
          => /\ AtArticle
             /\ sent = <<>>
             /\ messages' \in {Append(messages, Available(K)),
                                Append(messages, StillAvailable_(K))}
             /\ IsAvailable(last_states', K)
             /\ last_notifications'[K] = now
             /\ \/ ~IsAvailable(last_states, K)
                \/ now - last_notifications[K] >= COOLDOWN_SECONDS]_vars

\* the first of two messages failed, the second was sent all the same, and
\* the key of the first is Available and stamped with this cycle's time
C10_Witness ==
    /\ pc = "send"
    /\ Len(messages) = 2
    /\ sent = <<FALSE, TRUE>>
    /\ IsAvailable(last_states, messages[1].key)
    /\ last_notifications[messages[1].key] = now

\* the date labels of the days of the model, as a calendar gives them
DateLabel(day) ==
    CASE day = 0 -> <<<<3, 1>>, <<0, 3>>, 2025>>
      [] day = 1 -> <<<<0, 1>>, <<0, 4>>, 2025>>
      [] day = 2 -> <<<<0, 2>>, <<0, 4>>, 2025>>
      [] day = 30 -> <<<<3, 0>>, <<0, 4>>, 2025>>
      [] day = 31 -> <<<<0, 1>>, <<0, 5>>, 2025>>
      [] day = 275 -> <<<<3, 1>>, <<1, 2>>, 2025>>
      [] day = 276 -> <<<<0, 1>>, <<0, 1>>, 2026>>
      [] day = 334 -> <<<<2, 8>>, <<0, 2>>, 2026>>
      [] day = 335 -> <<<<0, 1>>, <<0, 3>>, 2026>>
      [] day = 1064 -> <<<<2, 8>>, <<0, 2>>, 2028>>
      [] day = 1065 -> <<<<2, 9>>, <<0, 2>>, 2028>>
      [] day = 1066 -> <<<<0, 1>>, <<0, 3>>, 2028>>

\* the keys whose entry the step adds to the dict or changes in it
Written(d) == {k \in DOMAIN d' : k \notin DOMAIN d \/ d'[k] # d[k]}

\* C11: the cycle's date label is tomorrow's when the time of day at the
\* start of the cycle is >= 19:45:00 and today's otherwise; it stays that
\* label to the end of the cycle, and every key written and every message
\* appended in the cycle carries it.
C11_TargetDate ==
    [][/\ (pc = "check")
          => target_str' = IF now % (24 * 3600) >= 19 * 3600 + 45 * 60
                           THEN DateLabel(now \div (24 * 3600) + 1)
                           ELSE DateLabel(now \div (24 * 3600))
       /\ (pc # "check" /\ pc' # "sleep") => Unchanged(target_str)
       /\ \A k \in Written(last_states) \cup Written(last_notifications) :
             k[2] = target_str
       /\ (messages' # messages /\ messages' # <<>>)
          => messages'[Len(messages')].key[2] = target_str]_vars

\* a cycle begun at exactly 19:45:00 on 31.03.2025 has written a key for 01.04.2025
C11_Witness ==
    /\ pc = "articles"
    /\ now = 19 * 3600 + 45 * 60 + 270
    /\ target_str = <<<<0, 1>>, <<0, 4>>, 2025>>
    /\ IsAvailable(last_states, <<"bruder", target_str>>)
    /\ last_notifications[<<"bruder", target_str>>] = now

\* the cell carries a fully-booked status marker
Marked(cell) ==
    \E i \in DOMAIN cell.status :
        LowerWord(cell.status[i]) \in {"ausgebucht", "verkauf beendet", "fully booked"}

\* the same cell without its status marker
Unmarked(cell) == [cell EXCEPT !.status = <<>>]

\* C12: the status marker of the calendar cell decides nothing. A cell with
\* a link goes on to the detail page, marked or not, with the URL the
\* unmarked cell gives; and each row of the detail page has the effect that
\* the row, the two dicts, the date, the URL and the clock determine.
C12_MarkerAdvisory ==
    [][/\ (pc = "day_cell" /\ ~NoUrl(Unmarked(day_cell)))
          => /\ pc' = "fetch_detail"
             /\ detail_url' = DetailUrl(LinkTag(Unmarked(day_cell)).href)
             /\ Unchanged(last_states)
             /\ Unchanged(last_notifications)
             /\ Unchanged(messages)
       /\ (pc = "day_cell" /\ NoUrl(Unmarked(day_cell))) => pc' = "sleep"
       /\ (pc = "fetch_detail" /\ pc' # "sleep")
          => pc' = "articles" /\ articles' \in 0..MaxRows
       /\ AtArticle
          => LET r == TrackArticle(last_states, last_notifications, messages,
                                   article', target_str, detail_url, now)
             IN  /\ last_states' = r.states
                 /\ last_notifications' = r.notifications
                 /\ messages' = r.messages
                 /\ ~r.raised
                 /\ pc' = "articles"]_vars

\* under a calendar cell marked fully booked, a row read as not sold out has
\* produced its "available" message
C12_Witness ==
    /\ pc = "articles"
    /\ Marked(day_cell)
    /\ article = BruderOpen
    /\ messages = <<Available(<<"bruder", target_str>>)>>
    /\ IsAvailable(last_states, <<"bruder", target_str>>)

\* this step appends a message for the key
Emits(key) ==
    /\ Len(messages') = Len(messages) + 1
    /\ messages'[Len(messages')].key = key

\* C13: a key's entry of last_notifications is written exactly by the steps
\* that append a message for that key, and the value written is the clock
\* value of the emission; no other step adds, removes or changes the entry.
\* A row read as not sold out for a key that is Available and whose cooldown
\* has not elapsed changes neither the key's state nor its timestamp and
\* appends nothing.
C13_TimestampIffMessage ==
    [][/\ \A k \in DOMAIN last_notifications \cup DOMAIN last_notifications' \cup Keys :
             /\ Emits(k)
                => k \in DOMAIN last_notifications' /\ last_notifications'[k] = now
             /\ ~Emits(k)
                => /\ k \in DOMAIN last_notifications' <=> k \in DOMAIN last_notifications
                   /\ k \in DOMAIN last_notifications
                      => last_notifications'[k] = last_notifications[k]
       /\ (Len(messages') = Len(messages) + 1)
          => messages'[Len(messages')].key \in DOMAIN last_notifications'
       /\ (/\ ReadsOpen
           /\ IsAvailable(last_states, K)
           /\ K \in DOMAIN last_notifications
           /\ now - last_notifications[K] < 600)
          => /\ Unchanged(last_states)
             /\ Unchanged(last_notifications)
             /\ Unchanged(messages)]_vars

\* a reminder has just moved the key's timestamp from an earlier cycle's
\* emission time to the present one
C13_Witness ==
    /\ pc = "articles"
    /\ messages = <<StillAvailable_(<<"bruder", target_str>>)>>
    /\ last_notifications[<<"bruder", target_str>>] = now
    /\ <<"bruder", target_str>> \in DOMAIN before.notifications
    /\ before.notifications[<<"bruder", target_str>>] < now

\* C14: no step removes a key from last_states or from last_notifications,
\* and a key absent from last_states is handled as an Unavailable one: read
\* as not sold out it gets the rising-edge message and becomes Available,
\* read as sold out it is recorded Unavailable without a message.
C14_NeverDeleted ==
    [][/\ DOMAIN last_states \subseteq DOMAIN last_states'
       /\ DOMAIN last_notifications \subseteq DOMAIN last_notifications'
       /\ (ReadsOpen /\ K \notin DOMAIN last_states)
          => /\ messages' = Append(messages, Available(K))
             /\ IsAvailable(last_states', K)
       /\ (ReadsSoldOut /\ K \notin DOMAIN last_states)
          => /\ Unchanged(messages)
             /\ K \in DOMAIN last_states'
             /\ ~last_states'[K]]_vars

\* after the date switch the keys of the earlier date are still there, one
\* of them recorded Unavailable, next to a key of the new date
C14_Witness ==
    \E k1 \in DOMAIN last_states, k2 \in DOMAIN last_notifications :
        /\ k1[2] # target_str
        /\ ~last_states[k1]
        /\ k1 \in DOMAIN last_notifications
        /\ k2[2] = target_str
        /\ k2 \in DOMAIN last_states

\* the key's entry of the dict is the same before and after the step
SameEntry(d, k) ==
    /\ k \in DOMAIN d' <=> k \in DOMAIN d
    /\ k \in DOMAIN d => d'[k] = d[k]

\* C15: a step of a cycle leaves alone the state and the timestamp of every
\* key whose date is not the cycle's target date; and a row read as not
\* sold out whose own key is not Available gets its "available" message
\* even while the key of the same ticket type for another date is Available.
C15_OtherDatesUntouched ==
    [][/\ \A k \in DOMAIN last_states \cup DOMAIN last_states'
                 \cup DOMAIN last_notifications \cup DOMAIN last_notifications' :
             k[2] # target_str
             => SameEntry(last_states, k) /\ SameEntry(last_notifications, k)
       /\ \A k \in DOMAIN last_states :
             (/\ ReadsOpen
              /\ ~IsAvailable(last_states, K)
              /\ k[1] = K[1] /\ k[2] # K[2] /\ last_states[k])
             => /\ K[2] = target_str
                /\ messages' = Append(messages, Available(K))
                /\ IsAvailable(last_states', K)
                /\ last_notifications'[K] = now]_vars

\* after the date switch the brothers' ticket of the new date has got its
\* rising-edge message while the brothers' ticket of the earlier date is
\* still recorded Available with its earlier timestamp
C15_Witness ==
    /\ pc = "articles"
    /\ messages = <<Available(<<"bruder", target_str>>)>>
    /\ \E k \in DOMAIN last_states :
          /\ k[1] = "bruder"
          /\ k[2] # target_str
          /\ last_states[k]
          /\ last_notifications[k] < now
          /\ last_notifications[k] = before.notifications[k]

\* C16: the messages collected in one cycle never hold two messages for the
\* same key.
C16_OneMessagePerKey ==
    \A i, j \in DOMAIN messages :
        messages[i].key = messages[j].key => i = j

\* C17: every key recorded Available has a last-notification timestamp, and
\* the lookup of line 158 has never raised.
C17_AvailableHasTimestamp ==
    /\ \A k \in DOMAIN last_states :
          last_states[k] => k \in DOMAIN last_notifications
    /\ pc # "crashed"

\* a key that was Available when the cycle began has been read as not sold
\* out inside its cooldown: the timestamp was looked up and found
C17_Witness ==
    /\ pc = "articles"
    /\ article = BruderOpen
    /\ messages = <<>>
    /\ IsAvailable(before.states, <<"bruder", target_str>>)
    /\ IsAvailable(last_states, <<"bruder", target_str>>)
    /\ now - last_notifications[<<"bruder", target_str>>] \in 1..599

====
